---- MODULE Spec2Model ----
(***************************************************************************)
(* A model of proj2_nps.py: the file-backed request cache                  *)
(* (use_cache / save_cache / make_url_request_using_cache /                *)
(* get_nearby_places), the cache key builder (construct_key), the site     *)
(* detail scraper (get_site_instance) and the nearby-places printer        *)
(* (print_nearby_places).                                                  *)
(*                                                                         *)
(* Python strings are sequences of one-character strings.  A Python dict   *)
(* is the sequence of its entries [k, v] in insertion order, keys          *)
(* distinct.                                                               *)
(***************************************************************************)
EXTENDS Integers, Sequences, FiniteSets, TLC

VARIABLES
    cache_file, calls,                      \* Spec: one process and cache.json
    kdict, kbase, kkey, kpc,                \* SpecKey: construct_key
    spage, sresult, spc,                    \* SpecSite: get_site_instance
    presp, pi, pout, ppc,                   \* SpecPlaces: print_nearby_places
    rfile, rpc, rurl, rlocal, rlast         \* SpecRace: two processes, one cache.json

cacheVars == <<cache_file, calls>>
keyVars == <<kdict, kbase, kkey, kpc>>
siteVars == <<spage, sresult, spc>>
placesVars == <<presp, pi, pout, ppc>>
raceVars == <<rfile, rpc, rurl, rlocal, rlast>>
vars == <<cache_file, calls, kdict, kbase, kkey, kpc, spage, sresult, spc,
          presp, pi, pout, ppc, rfile, rpc, rurl, rlocal, rlast>>

----------------------------------------------------------------------------
(* Bounds of the model *)

\* fetches one process makes
MaxCalls == 3
\* entries of a parameter dictionary given to construct_key
MaxParams == 3
\* raw results of one places response
MaxResults == 12

----------------------------------------------------------------------------
(* Python strings *)

\* the characters used, in code point order
Alphabet ==
    << "\n", " ", "(", ")", "-", ".",
       "0", "1", "2", "3", "4", "5", "6", "7", "8", "9",
       "A", "B", "C", "D", "E", "F", "G", "H", "I", "J", "K", "L", "M",
       "N", "O", "P", "Q", "R", "S", "T", "U", "V", "W", "X", "Y", "Z",
       "_",
       "a", "b", "c", "d", "e", "f", "g", "h", "i", "j", "k", "l", "m",
       "n", "o", "p", "q", "r", "s", "t", "u", "v", "w", "x", "y", "z" >>

Ord(c) == CHOOSE i \in 1..Len(Alphabet) : Alphabet[i] = c

\* a < b on Python strings: code point order, a proper prefix is smaller
RECURSIVE StrLess(_, _)
StrLess(a, b) ==
    IF b = <<>> THEN FALSE
    ELSE IF a = <<>> THEN TRUE
    ELSE IF Head(a) = Head(b) THEN StrLess(Tail(a), Tail(b))
    ELSE Ord(Head(a)) < Ord(Head(b))

\* s.replace(c, "") for a one-character c
RECURSIVE StrRemove(_, _)
StrRemove(s, c) ==
    IF s = <<>> THEN <<>>
    ELSE IF Head(s) = c THEN StrRemove(Tail(s), c)
    ELSE <<Head(s)>> \o StrRemove(Tail(s), c)

Digit(d) == Alphabet[d + 7]

\* str(n) for an int n >= 0
RECURSIVE IntStr(_)
IntStr(n) == IF n < 10 THEN <<Digit(n)>> ELSE IntStr(n \div 10) \o <<Digit(n % 10)>>

\* A parameter value: a str, an int, or a float with one decimal (n in tenths).
StrVal(s) == [t |-> "str", s |-> s, n |-> 0]
IntVal(n) == [t |-> "int", s |-> <<>>, n |-> n]
FloatVal(tenths) == [t |-> "float", s |-> <<>>, n |-> tenths]

\* the text an f-string puts for {value}
PyStr(v) ==
    IF v.t = "str" THEN v.s
    ELSE IF v.t = "int" THEN IntStr(v.n)
    ELSE IntStr(v.n \div 10) \o <<".">> \o IntStr(v.n % 10)

----------------------------------------------------------------------------
(* Python dicts *)

DictKeys(d) == {d[i].k : i \in DOMAIN d}

\* key in d
DictHas(d, key) == \E i \in DOMAIN d : d[i].k = key

\* d[key]
DictGet(d, key) == d[CHOOSE i \in DOMAIN d : d[i].k = key].v

\* mutant of DictSet: the dict is replaced by one holding only the new entry
DictSetFresh(d, key, value) == <<[k |-> key, v |-> value]>>

\* d[key] = value: an existing key keeps its position
DictSet(d, key, value) ==
    IF \E i \in DOMAIN d : d[i].k = key
    THEN [i \in DOMAIN d |-> IF d[i].k = key THEN [k |-> key, v |-> value] ELSE d[i]]
    ELSE Append(d, [k |-> key, v |-> value])

----------------------------------------------------------------------------
(* construct_key *)

\* sorted(lis): stable, by <
RECURSIVE SortedInsert(_, _)
SortedInsert(lis, x) ==
    IF lis = <<>> THEN <<x>>
    ELSE IF StrLess(x, Head(lis)) THEN <<x>> \o lis
    ELSE <<Head(lis)>> \o SortedInsert(Tail(lis), x)

\* mutant of sorted: the tokens are left in insertion order
sorted_unsorted(lis) == lis

RECURSIVE sorted(_)
sorted(lis) ==
    IF lis = <<>> THEN <<>>
    ELSE SortedInsert(sorted(SubSeq(lis, 1, Len(lis) - 1)), lis[Len(lis)])

\* sep.join(lis)
RECURSIVE Join(_, _)
Join(sep, lis) ==
    IF lis = <<>> THEN <<>>
    ELSE IF Len(lis) = 1 THEN lis[1]
    ELSE lis[1] \o sep \o Join(sep, Tail(lis))

construct_key(baseurl, dictionary) ==
    LET lis == [i \in DOMAIN dictionary |->
                   dictionary[i].k \o <<"_">> \o PyStr(dictionary[i].v)]
    IN  baseurl \o <<"_">> \o Join(<<"_">>, sorted(lis))

----------------------------------------------------------------------------
(* cache.json *)

(***************************************************************************)
(* The cache file is [status, content].  status "missing": no file;        *)
(* "denied": open() raises for the process in either mode; "ok": the file  *)
(* opens.  content is the text of the file as a sequence of JSON tokens:   *)
(* "{", one token per "key": value member, "}".                            *)
(***************************************************************************)
LBrace == [t |-> "{", k |-> <<>>, v |-> ""]
RBrace == [t |-> "}", k |-> <<>>, v |-> ""]
Member(e) == [t |-> "member", k |-> e.k, v |-> e.v]

\* json.dumps(cache_dict)
json_dumps(cache_dict) ==
    <<LBrace>> \o [i \in DOMAIN cache_dict |-> Member(cache_dict[i])] \o <<RBrace>>

\* the object read so far from member tokens: a repeated key keeps the last value
RECURSIVE MembersToDict(_)
MembersToDict(ms) ==
    IF ms = <<>> THEN <<>>
    ELSE LET last == ms[Len(ms)]
         IN  DictSet(MembersToDict(SubSeq(ms, 1, Len(ms) - 1)), last.k, last.v)

\* json.loads(text): raises unless text is one JSON object
json_loads(text) ==
    IF /\ Len(text) >= 2
       /\ text[1] = LBrace
       /\ text[Len(text)] = RBrace
       /\ \A i \in 2..(Len(text) - 1) : text[i].t = "member"
    THEN [raised |-> FALSE, value |-> MembersToDict(SubSeq(text, 2, Len(text) - 1))]
    ELSE [raised |-> TRUE, value |-> <<>>]

\* mutant of use_cache: no try/except around the open and the parse
use_cache_noexcept(f) ==
    IF f.status # "ok" THEN [raised |-> TRUE, value |-> <<>>, io |-> <<>>]
    ELSE LET r == json_loads(f.content)
         IN  [raised |-> r.raised, value |-> r.value, io |-> <<"read">>]

\* mutant of use_cache: the file is never opened, the cache starts empty
use_cache_noload(f) == [raised |-> FALSE, value |-> <<>>, io |-> <<>>]

\* use_cache(): the dict in the file, {} when the open or the parse raises.
\* io lists the file accesses made: "read" when the file was opened and read.
use_cache(f) ==
    IF f.status # "ok" THEN [raised |-> FALSE, value |-> <<>>, io |-> <<>>]
    ELSE LET r == json_loads(f.content)
         IN  IF r.raised
             THEN [raised |-> FALSE, value |-> <<>>, io |-> <<"read">>]
             ELSE [raised |-> FALSE, value |-> r.value, io |-> <<"read">>]

\* mutant of save_cache: the new entries are merged into what the file holds
save_cache_merge(f, cache_dict) ==
    IF f.status = "denied" THEN [raised |-> TRUE, file |-> f, io |-> <<>>]
    ELSE LET old == use_cache(f).value
             merged == [i \in 1..(Len(old) + Len(cache_dict)) |->
                           IF i <= Len(old) THEN old[i] ELSE cache_dict[i - Len(old)]]
         IN  [raised |-> FALSE,
              file |-> [status |-> "ok",
                        content |-> json_dumps(MembersToDict(
                                       [i \in DOMAIN merged |-> Member(merged[i])]))],
              io |-> <<"write">>]

\* mutant of save_cache: the dump is made but never written
save_cache_nowrite(f, cache_dict) ==
    IF f.status = "denied" THEN [raised |-> TRUE, file |-> f, io |-> <<>>]
    ELSE [raised |-> FALSE, file |-> f, io |-> <<>>]

\* save_cache(cache_dict): open("cache.json", "w") creates or truncates the file,
\* the whole dump is written.  io: "write" when the file was written.
save_cache(f, cache_dict) ==
    IF f.status = "denied" THEN [raised |-> TRUE, file |-> f, io |-> <<>>]
    ELSE [raised |-> FALSE,
          file |-> [status |-> "ok", content |-> json_dumps(cache_dict)],
          io |-> <<"write">>]

----------------------------------------------------------------------------
(* The network *)

Bodies == {"body1", "body2"}

\* requests.get(...) (and .json() on its response): raises, or gives a body
NetOutcomes ==
    {[raised |-> TRUE, body |-> ""]} \cup {[raised |-> FALSE, body |-> b] : b \in Bodies}

----------------------------------------------------------------------------
(* The cached fetchers *)

\* what a call did: raised is "none", "load", "network" or "save"
Outcome(raised, ret, file, io, loaded) ==
    [raised |-> raised, ret |-> ret, file |-> file, io |-> io, loaded |-> loaded]

\* mutant of make_url_request_using_cache: the page is fetched without
\* looking in the cache
make_url_request_nocheck(url, f, net) ==
    LET ld == use_cache(f)
        CACHE_DICT == ld.value
    IN  IF net.raised
        THEN Outcome("network", "", f, ld.io \o <<"get">>, CACHE_DICT)
        ELSE LET stored == DictSet(CACHE_DICT, url, net.body)
                 sv == save_cache(f, stored)
             IN  IF sv.raised
                 THEN Outcome("save", "", sv.file, ld.io \o <<"get">> \o sv.io, CACHE_DICT)
                 ELSE Outcome("none", DictGet(stored, url), sv.file,
                              ld.io \o <<"get">> \o sv.io, CACHE_DICT)

make_url_request_using_cache(url, f, net) ==
    LET ld == use_cache(f)
        CACHE_DICT == ld.value
    IN  IF ld.raised THEN Outcome("load", "", f, ld.io, <<>>)
        ELSE IF DictHas(CACHE_DICT, url)
        THEN Outcome("none", DictGet(CACHE_DICT, url), f, ld.io, CACHE_DICT)
        ELSE IF net.raised
        THEN Outcome("network", "", f, ld.io \o <<"get">>, CACHE_DICT)
        ELSE LET stored == DictSet(CACHE_DICT, url, net.body)
                 sv == save_cache(f, stored)
             IN  IF sv.raised
                 THEN Outcome("save", "", sv.file, ld.io \o <<"get">> \o sv.io, CACHE_DICT)
                 ELSE Outcome("none", DictGet(stored, url), sv.file,
                              ld.io \o <<"get">> \o sv.io, CACHE_DICT)

\* secrets.API_KEY: a value from outside the repository
API_KEY ==
    << "K" >>

\* base_url of get_nearby_places
MapquestUrl ==
    << "h", "t", "t", "p", ":", "/", "/", "w", "w", "w", ".", "m", "a", "p",
       "q", "u", "e", "s", "t", "a", "p", "i", ".", "c", "o", "m", "/", "s",
       "e", "a", "r", "c", "h", "/", "v", "2", "/", "r", "a", "d", "i", "u",
       "s" >>

\* the params of get_nearby_places for a site
NearbyParams(site_object) ==
    << [k |-> << "k", "e", "y" >>, v |-> StrVal(API_KEY)],
       [k |-> << "o", "r", "i", "g", "i", "n" >>, v |-> StrVal(site_object.zipcode)],
       [k |-> << "r", "a", "d", "i", "u", "s" >>, v |-> FloatVal(100)],
       [k |-> << "m", "a", "x", "M", "a", "t", "c", "h", "e", "s" >>, v |-> IntVal(10)],
       [k |-> << "a", "m", "b", "i", "g", "u", "i", "t", "i", "e", "s" >>, v |-> StrVal(<< "i", "g", "n", "o", "r", "e" >>)],
       [k |-> << "o", "u", "t", "F", "o", "r", "m", "a", "t" >>, v |-> StrVal(<< "j", "s", "o", "n" >>)] >>

\* mutant of get_nearby_places: a failed request is caught and an empty
\* answer is stored in its place
get_nearby_places_poison(site_object, f, net) ==
    LET request_key == construct_key(MapquestUrl, NearbyParams(site_object))
        ld == use_cache(f)
        CACHE_DICT == ld.value
    IN  IF DictHas(CACHE_DICT, request_key)
        THEN Outcome("none", DictGet(CACHE_DICT, request_key), f, ld.io, CACHE_DICT)
        ELSE LET stored == DictSet(CACHE_DICT, request_key, net.body)
                 sv == save_cache(f, stored)
             IN  IF sv.raised
                 THEN Outcome("save", "", sv.file, ld.io \o <<"get">> \o sv.io, CACHE_DICT)
                 ELSE Outcome("none", DictGet(stored, request_key), sv.file,
                              ld.io \o <<"get">> \o sv.io, CACHE_DICT)

get_nearby_places(site_object, f, net) ==
    LET request_key == construct_key(MapquestUrl, NearbyParams(site_object))
        ld == use_cache(f)
        CACHE_DICT == ld.value
    IN  IF ld.raised THEN Outcome("load", "", f, ld.io, <<>>)
        ELSE IF DictHas(CACHE_DICT, request_key)
        THEN Outcome("none", DictGet(CACHE_DICT, request_key), f, ld.io, CACHE_DICT)
        ELSE IF net.raised
        THEN Outcome("network", "", f, ld.io \o <<"get">>, CACHE_DICT)
        ELSE LET stored == DictSet(CACHE_DICT, request_key, net.body)
                 sv == save_cache(f, stored)
             IN  IF sv.raised
                 THEN Outcome("save", "", sv.file, ld.io \o <<"get">> \o sv.io, CACHE_DICT)
                 ELSE Outcome("none", DictGet(stored, request_key), sv.file,
                              ld.io \o <<"get">> \o sv.io, CACHE_DICT)

\* the page build_state_url_dict fetches
NpsUrl ==
    << "h", "t", "t", "p", "s", ":", "/", "/", "w", "w", "w", ".", "n", "p",
       "s", ".", "g", "o", "v" >>

\* a state page, as build_state_url_dict maps it
MichiganUrl ==
    << "h", "t", "t", "p", "s", ":", "/", "/", "w", "w", "w", ".", "n", "p",
       "s", ".", "g", "o", "v", "/", "s", "t", "a", "t", "e", "/", "m", "i",
       "/", "i", "n", "d", "e", "x", ".", "h", "t", "m" >>

\* zip codes of sites (the examples of NationalSite)
Zip1 ==
    << "4", "9", "9", "3", "1" >>

Zip2 ==
    << "8", "2", "1", "9", "0", "-", "0", "1", "6", "8" >>

PageUrls == {NpsUrl, MichiganUrl}
Sites == {[zipcode |-> Zip1], [zipcode |-> Zip2]}

\* cache.json as the process may find it
InitialFiles ==
    { [status |-> "missing", content |-> <<>>],
      [status |-> "denied", content |-> <<>>],
      [status |-> "ok", content |-> <<>>],
      [status |-> "ok", content |-> <<LBrace>>],
      [status |-> "ok", content |-> json_dumps(<<>>)],
      [status |-> "ok", content |-> json_dumps(<<[k |-> NpsUrl, v |-> "body1"]>>)] }

\* the record of one call: its request identity, the file before and after,
\* how it ended, and whether the network call it made raised
CallRecord(fn, key, before, net, o) ==
    [fn |-> fn, key |-> key, before |-> before, after |-> o.file,
     raised |-> o.raised, ret |-> o.ret, io |-> o.io, loaded |-> o.loaded,
     netfail |-> net.raised /\ \E j \in DOMAIN o.io : o.io[j] = "get"]

CacheInit ==
    /\ cache_file \in InitialFiles
    /\ calls = <<>>

CacheIdle ==
    /\ cache_file = [status |-> "missing", content |-> <<>>]
    /\ calls = <<>>

\* one call of make_url_request_using_cache
FetchPage ==
    /\ Len(calls) < MaxCalls
    /\ \E url \in PageUrls, net \in NetOutcomes :
          LET o == make_url_request_using_cache(url, cache_file, net)
          IN  /\ cache_file' = o.file
              /\ calls' = Append(calls, CallRecord("page", url, cache_file, net, o))
    /\ UNCHANGED <<keyVars, siteVars, placesVars, raceVars>>

\* one call of get_nearby_places
FetchJson ==
    /\ Len(calls) < MaxCalls
    /\ \E site_object \in Sites, net \in NetOutcomes :
          LET o == get_nearby_places(site_object, cache_file, net)
              request_key == construct_key(MapquestUrl, NearbyParams(site_object))
          IN  /\ cache_file' = o.file
              /\ calls' = Append(calls, CallRecord("json", request_key, cache_file, net, o))
    /\ UNCHANGED <<keyVars, siteVars, placesVars, raceVars>>


----------------------------------------------------------------------------
(* construct_key on its own: a caller fills a dict, then asks for the key *)

KeyNames == {<<"k">>, <<"o">>, <<"o", "_">>, <<"r">>}
KeyValues == {StrVal(<<"1">>), StrVal(<<"_", "1">>), IntVal(10), FloatVal(100)}
KeyBases == {MapquestUrl, NpsUrl}

KeyInit ==
    /\ kdict = <<>>
    /\ kbase = <<>>
    /\ kkey = <<>>
    /\ kpc = "build"

KeyIdle ==
    /\ kdict = <<>>
    /\ kbase = <<>>
    /\ kkey = <<>>
    /\ kpc = "idle"

\* dictionary[name] = value
KeyInsert ==
    /\ kpc = "build"
    /\ Len(kdict) < MaxParams
    /\ \E name \in KeyNames, value \in KeyValues :
          kdict' = DictSet(kdict, name, value)
    /\ UNCHANGED <<kbase, kkey, kpc>>
    /\ UNCHANGED <<cacheVars, siteVars, placesVars, raceVars>>

\* construct_key(baseurl, dictionary)
KeyConstruct ==
    /\ kpc = "build"
    /\ \E baseurl \in KeyBases :
          /\ kbase' = baseurl
          /\ kkey' = construct_key(baseurl, kdict)
    /\ kpc' = "done"
    /\ UNCHANGED kdict
    /\ UNCHANGED <<cacheVars, siteVars, placesVars, raceVars>>

----------------------------------------------------------------------------
(* get_site_instance *)

(***************************************************************************)
(* The parsed detail page, as the finds of get_site_instance see it: each  *)
(* element is present or not (find gives None), with its text.             *)
(***************************************************************************)
Absent == [present |-> FALSE, text |-> <<>>]
Elem(text) == [present |-> TRUE, text |-> text]

\* class "Hero-titleContainer clearfix" and the <a> in it
TitleContainers ==
    { [present |-> FALSE, a |-> Absent],
      [present |-> TRUE, a |-> Absent],
      [present |-> TRUE, a |-> Elem(<<"I", "s", "l", "e">>)] }

\* class "Hero-designationContainer" and the span "Hero-designation" in it
DesignationContainers ==
    { [present |-> FALSE, span |-> Absent],
      [present |-> TRUE, span |-> Absent],
      [present |-> TRUE, span |-> Elem(<<>>)],
      [present |-> TRUE, span |-> Elem(<<"P", "a", "r", "k">>)] }

Pages ==
    [ title : TitleContainers,
      designation : DesignationContainers,
      addressLocality : {Absent, Elem(<<"E", "l", "y">>)},
      addressRegion : {Absent, Elem(<<"M", "I">>)},
      postalCode : {Absent, Elem(<<"4", "9", "9", "3", "1", " ">>), Elem(<<" ", "8", "2", "1", "9", "0", "-", "0", "1", "6", "8">>)},
      tel : {Absent, Elem(<<>>), Elem(<<"\n", "(", "6", "1", "6", ")", " ", "3", "1", "9", "-", "7", "9", "0", "6", "\n">>)} ]

NationalSite(name, category, address, zipcode, phone) ==
    [name |-> name, category |-> category, address |-> address,
     zipcode |-> zipcode, phone |-> phone]

NoSite == NationalSite(<<>>, <<>>, <<>>, <<>>, <<>>)

\* get_site_instance on the parsed page: .text or .find on None raises
\* AttributeError
get_site_instance(soup) ==
    IF ~soup.title.present \/ ~soup.title.a.present
    THEN [raised |-> TRUE, site |-> NoSite]
    ELSE IF ~soup.designation.present \/ ~soup.designation.span.present
    THEN [raised |-> TRUE, site |-> NoSite]
    ELSE IF ~soup.addressLocality.present \/ ~soup.addressRegion.present
    THEN [raised |-> TRUE, site |-> NoSite]
    ELSE IF ~soup.postalCode.present
    THEN [raised |-> TRUE, site |-> NoSite]
    ELSE IF ~soup.tel.present
    THEN [raised |-> TRUE, site |-> NoSite]
    ELSE [raised |-> FALSE,
          site |-> NationalSite(
                      soup.title.a.text,
                      soup.designation.span.text,
                      soup.addressLocality.text \o <<",", " ">> \o soup.addressRegion.text,
                      StrRemove(soup.postalCode.text, " "),
                      StrRemove(soup.tel.text, "\n"))]

SiteInit ==
    /\ spage \in Pages
    /\ sresult = [raised |-> FALSE, site |-> NoSite]
    /\ spc = "ready"

SiteIdle ==
    /\ spage = [title |-> [present |-> FALSE, a |-> Absent],
                designation |-> [present |-> FALSE, span |-> Absent],
                addressLocality |-> Absent, addressRegion |-> Absent,
                postalCode |-> Absent, tel |-> Absent]
    /\ sresult = [raised |-> FALSE, site |-> NoSite]
    /\ spc = "idle"

\* get_site_instance(site_url), on the page the fetch returned
GetSiteInstance ==
    /\ spc = "ready"
    /\ sresult' = get_site_instance(spage)
    /\ spc' = "done"
    /\ UNCHANGED spage
    /\ UNCHANGED <<cacheVars, keyVars, placesVars, raceVars>>

----------------------------------------------------------------------------
(* print_nearby_places *)

\* the number of places after which the loop breaks
PrintLimit == 10

\* the n-th raw result of a response; shape decides which fields are ""
RawPlace(n, shape) ==
    LET bits == (shape + n) % 8
    IN  [fields |->
           [name |-> <<"P">> \o IntStr(n),
            group_sic_code_name_ext |-> IF bits % 2 = 1 THEN <<>> ELSE <<"I", "n", "n">>,
            address |-> IF (bits \div 2) % 2 = 1 THEN <<>> ELSE <<"1", " ", "M", "a", "i", "n">>,
            city |-> IF (bits \div 4) % 2 = 1 THEN <<>> ELSE <<"E", "l", "y">>]]

\* the responses get_nearby_places may return: 0..MaxResults raw results
Responses ==
    { [searchResults |-> [n \in 1..len |-> RawPlace(n, shape)]] :
         len \in 0..MaxResults, shape \in 0..7 }

\* the line printed for one raw result
NearLine(near_fields) ==
    LET near_name == near_fields.name
        near_category == IF near_fields.group_sic_code_name_ext # <<>>
                         THEN near_fields.group_sic_code_name_ext
                         ELSE <<"n", "o", " ", "c", "a", "t", "e", "g", "o", "r", "y">>
        near_address == IF near_fields.address # <<>>
                        THEN near_fields.address
                        ELSE <<"n", "o", " ", "a", "d", "d", "r", "e", "s", "s">>
        near_city == IF near_fields.city # <<>>
                     THEN near_fields.city
                     ELSE <<"n", "o", " ", "c", "i", "t", "y">>
    IN  <<"-", " ">> \o near_name \o <<" ", "(">> \o near_category \o <<")", ":", " ">>
           \o near_address \o <<",", " ">> \o near_city

PlacesInit ==
    /\ presp \in Responses
    /\ pi = 0
    /\ pout = <<>>
    /\ ppc = "loop"

PlacesIdle ==
    /\ presp = [searchResults |-> <<>>]
    /\ pi = 0
    /\ pout = <<>>
    /\ ppc = "idle"

\* mutant of PrintNearStep: the loop has no break
PrintNearStepNoBreak ==
    /\ ppc = "loop"
    /\ pi < Len(presp.searchResults)
    /\ pout' = Append(pout, NearLine(presp.searchResults[pi + 1].fields))
    /\ pi' = pi + 1
    /\ ppc' = "loop"
    /\ UNCHANGED presp
    /\ UNCHANGED <<cacheVars, keyVars, siteVars, raceVars>>

\* one turn of the for loop: print the next place, break after the tenth
PrintNearStep ==
    /\ ppc = "loop"
    /\ pi < Len(presp.searchResults)
    /\ pout' = Append(pout, NearLine(presp.searchResults[pi + 1].fields))
    /\ pi' = pi + 1
    /\ ppc' = IF pi' = PrintLimit THEN "done" ELSE "loop"
    /\ UNCHANGED presp
    /\ UNCHANGED <<cacheVars, keyVars, siteVars, raceVars>>

\* the for loop runs out of places
PrintNearEnd ==
    /\ ppc = "loop"
    /\ pi = Len(presp.searchResults)
    /\ ppc' = "done"
    /\ UNCHANGED <<presp, pi, pout>>
    /\ UNCHANGED <<cacheVars, keyVars, siteVars, raceVars>>

----------------------------------------------------------------------------
(* Two processes, each in make_url_request_using_cache on the same file *)

(***************************************************************************)
(* Each process runs the three steps of a call in turn: the load           *)
(* (use_cache and the test of the key), the request, the save.  The steps  *)
(* of the two processes interleave freely; one save_cache (open, write,    *)
(* close) is one step.                                                     *)
(***************************************************************************)

Procs == {1, 2}

RaceInit ==
    /\ rfile \in InitialFiles
    /\ rurl \in [Procs -> PageUrls]
    /\ rpc = [p \in Procs |-> "load"]
    /\ rlocal = [p \in Procs |-> <<>>]
    /\ rlast = 0

RaceIdle ==
    /\ rfile = [status |-> "missing", content |-> <<>>]
    /\ rurl = [p \in Procs |-> NpsUrl]
    /\ rpc = [p \in Procs |-> "idle"]
    /\ rlocal = [p \in Procs |-> <<>>]
    /\ rlast = 0

\* CACHE_DICT = use_cache() and the test of the key
RaceLoad(p) ==
    /\ rpc[p] = "load"
    /\ LET ld == use_cache(rfile)
       IN  /\ rlocal' = [rlocal EXCEPT ![p] = ld.value]
           /\ rpc' = [rpc EXCEPT ![p] =
                         IF DictHas(ld.value, rurl[p]) THEN "hit" ELSE "get"]
    /\ UNCHANGED <<rfile, rurl, rlast>>
    /\ UNCHANGED <<cacheVars, keyVars, siteVars, placesVars>>

\* response = requests.get(url); CACHE_DICT[url] = response.text
RaceGet(p) ==
    /\ rpc[p] = "get"
    /\ \E net \in NetOutcomes :
          IF net.raised
          THEN /\ rpc' = [rpc EXCEPT ![p] = "raised"]
               /\ UNCHANGED rlocal
          ELSE /\ rpc' = [rpc EXCEPT ![p] = "save"]
               /\ rlocal' = [rlocal EXCEPT ![p] = DictSet(rlocal[p], rurl[p], net.body)]
    /\ UNCHANGED <<rfile, rurl, rlast>>
    /\ UNCHANGED <<cacheVars, keyVars, siteVars, placesVars>>

\* save_cache(CACHE_DICT)
RaceSave(p) ==
    /\ rpc[p] = "save"
    /\ LET sv == save_cache(rfile, rlocal[p])
       IN  IF sv.raised
           THEN /\ rpc' = [rpc EXCEPT ![p] = "raised"]
                /\ UNCHANGED <<rfile, rlast>>
           ELSE /\ rpc' = [rpc EXCEPT ![p] = "saved"]
                /\ rfile' = sv.file
                /\ rlast' = p
    /\ UNCHANGED <<rurl, rlocal>>
    /\ UNCHANGED <<cacheVars, keyVars, siteVars, placesVars>>

----------------------------------------------------------------------------
(* Specifications *)

Init == CacheInit /\ KeyIdle /\ SiteIdle /\ PlacesIdle /\ RaceIdle
Next == FetchPage \/ FetchJson
Spec == Init /\ [][Next]_vars

InitKey == CacheIdle /\ KeyInit /\ SiteIdle /\ PlacesIdle /\ RaceIdle
NextKey == KeyInsert \/ KeyConstruct
SpecKey == InitKey /\ [][NextKey]_vars

InitSite == CacheIdle /\ KeyIdle /\ SiteInit /\ PlacesIdle /\ RaceIdle
NextSite == GetSiteInstance
SpecSite == InitSite /\ [][NextSite]_vars

InitPlaces == CacheIdle /\ KeyIdle /\ SiteIdle /\ PlacesInit /\ RaceIdle
NextPlaces == PrintNearStep \/ PrintNearEnd
SpecPlaces == InitPlaces /\ [][NextPlaces]_vars

InitRace == CacheIdle /\ KeyIdle /\ SiteIdle /\ PlacesIdle /\ RaceInit
NextRace == \E p \in Procs : RaceLoad(p) \/ RaceGet(p) \/ RaceSave(p)
SpecRace == InitRace /\ [][NextRace]_vars

----------------------------------------------------------------------------
(* Properties *)

\* how many times event e occurs in io
Count(io, e) == Cardinality({j \in DOMAIN io : io[j] = e})

\* the text of the file is one JSON object
WellFormed(f) == f.status = "ok" /\ ~json_loads(f.content).raised

\* the (identity, value) pairs the file holds
PersistedEntries(f) ==
    IF WellFormed(f)
    THEN {<<f.content[j].k, f.content[j].v>> : j \in 2..(Len(f.content) - 1)}
    ELSE {}

PersistedKeys(f) == {e[1] : e \in PersistedEntries(f)}

\* all reads of the file the process has made
TotalReads ==
    Cardinality(UNION {{<<i, j>> : j \in {j \in DOMAIN calls[i].io : calls[i].io[j] = "read"}} :
                          i \in DOMAIN calls})

\* C1: starting from an empty cache, two consecutive calls of
\* make_url_request_using_cache for the same url that both return make one
\* network call in total, and the second returns what the first returned.
C1_TwoCallsOneFetch ==
    \A i \in 1..(Len(calls) - 1) :
        LET first == calls[i]
            second == calls[i + 1]
        IN  ( /\ first.fn = "page" /\ second.fn = "page"
              /\ first.key = second.key
              /\ PersistedEntries(first.before) = {}
              /\ first.raised = "none" /\ second.raised = "none" )
            => /\ Count(first.io, "get") + Count(second.io, "get") = 1
               /\ second.ret = first.ret

C1_Witness ==
    /\ Len(calls) >= 2
    /\ calls[1].fn = "page" /\ calls[2].fn = "page"
    /\ calls[1].key = MichiganUrl /\ calls[2].key = MichiganUrl
    /\ calls[1].before.status = "missing"
    /\ calls[1].raised = "none" /\ calls[2].raised = "none"
    /\ Count(calls[1].io, "get") = 1 /\ Count(calls[2].io, "get") = 0
    /\ calls[2].ret = "body2"

\* C2: a call (of either fetcher) whose identity is absent from the cache and
\* that returns has written the file exactly once; a call whose identity is
\* present returns with no network call and no write, the file unchanged.
C2_MissWritesOnceHitNothing ==
    \A i \in DOMAIN calls :
        LET c == calls[i]
            present == c.key \in PersistedKeys(c.before)
        IN  /\ (~present /\ c.raised = "none") =>
                  /\ Count(c.io, "write") = 1
                  /\ Count(c.io, "get") = 1
                  /\ PersistedEntries(c.after) =
                        PersistedEntries(c.before) \cup {<<c.key, c.ret>>}
            /\ present =>
                  /\ c.raised = "none"
                  /\ Count(c.io, "get") = 0
                  /\ Count(c.io, "write") = 0
                  /\ c.after = c.before

C2_Witness ==
    /\ Len(calls) = 3
    /\ calls[1].fn = "page" /\ calls[1].key \in PersistedKeys(calls[1].before)
    /\ calls[2].fn = "json" /\ calls[2].key \notin PersistedKeys(calls[2].before)
    /\ calls[2].raised = "none" /\ Count(calls[2].io, "write") = 1
    /\ calls[3].fn = "json" /\ calls[3].key = calls[2].key
    /\ Count(calls[3].io, "get") = 0 /\ Count(calls[3].io, "write") = 0

\* C3: when the network call of a miss raises, the call raises, nothing is
\* written, the file is as before, and a next call with the same identity is
\* again a miss that makes the network call.
C3_FailedFetchNotCached ==
    \A i \in DOMAIN calls :
        LET c == calls[i]
        IN  c.netfail =>
               /\ c.raised = "network"
               /\ Count(c.io, "write") = 0
               /\ c.after = c.before
               /\ c.key \notin PersistedKeys(c.after)
               /\ (i < Len(calls) /\ calls[i + 1].key = c.key) =>
                     Count(calls[i + 1].io, "get") = 1

C3_Witness ==
    /\ Len(calls) >= 2
    /\ calls[1].fn = "json" /\ calls[1].netfail /\ calls[1].raised = "network"
    /\ calls[1].before.status = "ok" /\ WellFormed(calls[1].before)
    /\ calls[2].key = calls[1].key
    /\ Count(calls[2].io, "get") = 1 /\ calls[2].raised = "none"

\* the load of f cannot succeed: no file, no permission, or text that is not JSON
Unloadable(f) == f.status \in {"missing", "denied"} \/ json_loads(f.content).raised

\* C4: no call ever ends with an exception from use_cache; when the file is
\* missing, cannot be opened or is not JSON, the loaded mapping is empty and
\* the call goes on as a miss (it makes the network call).
C4_LoadNeverRaises ==
    \A i \in DOMAIN calls :
        LET c == calls[i]
        IN  /\ c.raised # "load"
            /\ Unloadable(c.before) =>
                  /\ c.loaded = <<>>
                  /\ Count(c.io, "get") = 1

C4_Witness ==
    /\ Len(calls) >= 1
    /\ calls[1].before = [status |-> "ok", content |-> <<LBrace>>]
    /\ calls[1].loaded = <<>>
    /\ calls[1].raised = "none"
    /\ Count(calls[1].io, "get") = 1
    /\ WellFormed(cache_file)

\* the bijections of 1..n
Perms(n) == {f \in [1..n -> 1..n] : \A i, j \in 1..n : f[i] = f[j] => i = j}

\* C5: the key construct_key returned for a dictionary is the key it returns
\* for every other insertion order of the same entries.
C5_KeyOrderInvariant ==
    kpc = "done" =>
        \A f \in Perms(Len(kdict)) :
            construct_key(kbase, [i \in 1..Len(kdict) |-> kdict[f[i]]]) = kkey

C5_Witness ==
    /\ kpc = "done"
    /\ Len(kdict) = 3
    /\ kdict[1].k = <<"r">> /\ kdict[2].k = <<"o", "_">> /\ kdict[3].k = <<"o">>
    /\ kdict[2].v = StrVal(<<"1">>) /\ kdict[3].v = StrVal(<<"_", "1">>)
    /\ construct_key(kbase, <<kdict[3], kdict[1], kdict[2]>>) = kkey

\* C6: for a page with its title, get_site_instance does not raise, and every
\* optional element the page lacks gives "" in the record.
C6_ToleratesMissingElements ==
    (spc = "done" /\ spage.title.present /\ spage.title.a.present) =>
        /\ ~sresult.raised
        /\ ~spage.tel.present => sresult.site.phone = <<>>
        /\ ~spage.postalCode.present => sresult.site.zipcode = <<>>
        /\ ~(spage.designation.present /\ spage.designation.span.present) =>
              sresult.site.category = <<>>
        /\ ~(spage.addressLocality.present /\ spage.addressRegion.present) =>
              sresult.site.address = <<>>

\* C7: when print_nearby_places is done with a response of n raw results, it
\* has printed min(n, 10) lines, the lines of the first min(n, 10) results in
\* their order.
C7_FirstTenInOrder ==
    ppc = "done" =>
        LET n == Len(presp.searchResults)
            m == IF n < 10 THEN n ELSE 10
        IN  /\ Len(pout) = m
            /\ \A j \in 1..m :
                  /\ pout[j] = NearLine(presp.searchResults[j].fields)
                  /\ SubSeq(pout[j], 3, 2 + Len(presp.searchResults[j].fields.name))
                        = presp.searchResults[j].fields.name

C7_Witness ==
    /\ ppc = "done"
    /\ Len(presp.searchResults) > 10
    /\ Len(pout) = 10
    /\ presp.searchResults[10].fields.city = <<>>

\* C8: every (identity, value) pair the file held before or after any call of
\* the process is still in the file.
C8_EntriesNeverExpire ==
    \A i \in DOMAIN calls :
        PersistedEntries(calls[i].before) \cup PersistedEntries(calls[i].after)
            \subseteq PersistedEntries(cache_file)

C8_Witness ==
    /\ Len(calls) = 3
    /\ Cardinality(PersistedEntries(calls[1].before)) = 1
    /\ Cardinality(PersistedEntries(calls[2].before)) = 2
    /\ Cardinality(PersistedEntries(cache_file)) = 3
    /\ \E i \in DOMAIN calls : calls[i].fn = "json" /\ calls[i].raised = "none"

\* C9, as claimed: the process reads the cache file at most once.
C9_ReadAtMostOnce == TotalReads <= 1

\* C9, amended: every call reads the file anew: it opens and reads the file
\* once if it can be opened, and what it consults is what the file holds then.
C9_ReadOnEveryCall ==
    \A i \in DOMAIN calls :
        LET c == calls[i]
        IN  /\ c.before.status = "ok" => Count(c.io, "read") = 1
            /\ c.before.status # "ok" => Count(c.io, "read") = 0
            /\ {<<c.loaded[j].k, c.loaded[j].v>> : j \in DOMAIN c.loaded}
                  = PersistedEntries(c.before)

C9_Witness ==
    /\ Len(calls) = 3
    /\ TotalReads = 3
    /\ calls[1].raised = "none" /\ Count(calls[1].io, "write") = 1
    /\ calls[2].key = calls[1].key /\ Count(calls[2].io, "get") = 0
    /\ calls[3].key = calls[1].key /\ Count(calls[3].io, "get") = 0

====
